---------------------------- MODULE Spec2Model ----------------------------
(***************************************************************************)
(* A model of bigsuds (src/bigsuds.py): the BIGIP facade with its lazily   *)
(* populated attribute caches, session-bound instances, the Transaction    *)
(* context manager, the wrapped iControl method with its exception         *)
(* translation, the argument marshaller (_DefaultArgProcessor) and the     *)
(* result normalizer (_NativeResultProcessor).                             *)
(*                                                                         *)
(* Names are sequences of tokens, so that the tests the code makes on the  *)
(* text of a name ('.' in arg_type, '_' in attr, attr.startswith('__'))    *)
(* are computed and not assumed: "LocalLB_Pool" is <<"LocalLB","_","Pool">>*)
(* and "Common.StringSequence" is <<"Common",".","StringSequence">>.       *)
(***************************************************************************)
EXTENDS Integers, Sequences, FiniteSets, Bags, TLC

VARIABLES
    py2,        \* six.PY2 of the interpreter the library runs under
    v11,        \* the appliance is 11.0.0 or later (sessions, transactions)
    insts,      \* the BIGIP instances: parameters, _headers, cached namespaces
    objs,       \* the namespace, client wrapper and wrapped method objects
    fetched,    \* the clients get_client has given: a bag of (instance, path)
    last,       \* the last operation: what it returned or raised, the
                \* get_client calls and the remote calls it made
    txn,        \* the with-statement running a Transaction
    mIn,        \* marshalling machine: the input under test
    mOut,       \* marshalling machine: what the last step gave
    mPc         \* marshalling machine: position

vars == <<py2, v11, insts, objs, fetched, last, txn, mIn, mOut, mPc>>

facadeVars == <<v11, insts, objs, fetched, last, txn>>
marshalVars == <<mIn, mOut, mPc>>

-----------------------------------------------------------------------------
(* Bounds of the model.                                                    *)

MaxLen == 2          \* longest list value enumerated
MaxInt == 1          \* integer argument values are 0..MaxInt
MaxSize == 6         \* instances and objects (namespaces, clients, methods)
                     \* ever made
MaxLog == 2          \* remote calls a Transaction body issues

-----------------------------------------------------------------------------
(* Python values.                                                          *)

NoneV == [k |-> "none"]
IntV(n) == [k |-> "int", i |-> n]
\* A string: its class (a PY2 byte str, a text string, or suds' Text, which
\* derives from the text type), its ASCII part and the code units after it
\* (code points of a text string, bytes of a byte string).
StrV(cls, s, x) == [k |-> "str", cls |-> cls, s |-> s, x |-> x]
Txt(s) == StrV("text", s, <<>>)
ListV(seq) == [k |-> "list", v |-> seq]
\* A dict: its items in iteration order, keys distinct.
DictV(pairs) == [k |-> "dict", v |-> pairs]
\* A suds.sudsobject.Object: its class name and its attributes in
\* __keylist__ order.
SudsV(cls, attrs) == [k |-> "suds", cls |-> cls, attrs |-> attrs]

Ok(v) == [exc |-> "none", val |-> v]
Raise(e) == [exc |-> e, val |-> NoneV]

HasTok(name, tok) == \E i \in 1..Len(name) : name[i] = tok
Q(ns, n) == <<ns, ".", n>>

KeysOf(pairs) == {pairs[i][1] : i \in 1..Len(pairs)}
ValueAt(pairs, key) ==
    pairs[CHOOSE i \in 1..Len(pairs) : pairs[i][1] = key][2]
SetAt(pairs, key, val) ==
    [i \in 1..Len(pairs) |->
        IF pairs[i][1] = key THEN <<key, val>> ELSE pairs[i]]

\* isinstance(value, six.string_types): basestring under PY2, str under PY3
\* (where a bytes object is not a string).
IsString(p2, v) == v.k = "str" /\ (p2 \/ v.cls # "bytes")

-----------------------------------------------------------------------------
(* The schema of the appliance, as client.factory sees it.                 *)

StringSequence == Q("Common", "StringSequence")
StringSequenceSequence == Q("Common", "StringSequenceSequence")
IPPortDefinition == Q("Common", "IPPortDefinition")
IPPortDefinitionSequence == Q("Common", "IPPortDefinitionSequence")
ProtocolType == Q("Common", "ProtocolType")
VirtualServerDefinition == Q("Common", "VirtualServerDefinition")
TimeStamp == Q("Common", "TimeStamp")
Missing == Q("Common", "Missing")
NoneType == <<"NoneType">>

Schema ==
    (StringSequence :> [kind |-> "array", elem |-> <<"string">>])
 @@ (StringSequenceSequence :> [kind |-> "array", elem |-> StringSequence])
 @@ (IPPortDefinitionSequence :> [kind |-> "array", elem |-> IPPortDefinition])
 @@ (IPPortDefinition :>
        [kind |-> "struct",
         fields |-> << <<"address", <<"string">> >>, <<"port", <<"long">> >> >>])
 @@ (VirtualServerDefinition :>
        [kind |-> "struct",
         fields |-> << <<"name", <<"string">> >>,
                       <<"protocol", ProtocolType>>,
                       <<"member", IPPortDefinition>>,
                       <<"aliases", StringSequence>> >>])
 @@ (ProtocolType :>
        [kind |-> "enum", members |-> <<"PROTOCOL_TCP", "PROTOCOL_UDP">>])
 @@ (TimeStamp :> [kind |-> "opaque"])

TypeNames ==
    DOMAIN Schema \cup {Missing, <<"string">>, <<"long">>, <<"ns0", ":", "long">>}

\* self._factory.create(arg_type): TypeNotFound for a type the schema lacks,
\* else a fresh object carrying the attributes the type declares: an
\* attribute of a schema type holds an object of that type, any other holds
\* None; an enumeration's object has one attribute per member.
RECURSIVE FactoryCreate(_)
FactoryCreate(t) ==
    LET d == Schema[t] IN
    CASE d.kind = "struct" ->
            SudsV(t, [i \in 1..Len(d.fields) |->
                        <<d.fields[i][1],
                          IF d.fields[i][2] \in DOMAIN Schema
                          THEN FactoryCreate(d.fields[i][2])
                          ELSE NoneV>>])
      [] d.kind = "enum" ->
            SudsV(t, [i \in 1..Len(d.members) |->
                        <<d.members[i], Txt(d.members[i])>>])
      [] OTHER -> SudsV(t, <<>>)

\* type(x).__name__ as the marshaller reads it off an attribute's value.
ClassName(v) == IF v.k = "suds" THEN v.cls ELSE NoneType

\* _DefaultArgProcessor._array_type: the element type name of an array
\* type's object, None (here NoneType) for any other object.
ArrayType(obj) ==
    IF obj.cls \in DOMAIN Schema /\ Schema[obj.cls].kind = "array"
    THEN Schema[obj.cls].elem
    ELSE NoneType

-----------------------------------------------------------------------------
(* _DefaultArgProcessor._process_arg                                       *)

RECURSIVE ProcessArg(_, _, _)
RECURSIVE ProcessDict(_, _, _, _)
RECURSIVE ProcessItems(_, _, _, _, _)

\* The loop of lines 585-596 from item idx on: obj with each key assigned
\* its marshalled value; the first failing item raises.
ProcessDict(p2, obj, pairs, idx) ==
    IF idx > Len(pairs) THEN Ok(obj)
    ELSE LET name == pairs[idx][1] IN
         IF name \notin KeysOf(obj.attrs) THEN Raise("ArgumentError")
         ELSE LET r == ProcessArg(p2, ClassName(ValueAt(obj.attrs, name)),
                                  pairs[idx][2]) IN
              IF r.exc # "none" THEN r
              ELSE ProcessDict(p2, SudsV(obj.cls, SetAt(obj.attrs, name, r.val)),
                               pairs, idx + 1)

\* The list comprehension of line 606 from element idx on.
ProcessItems(p2, elemType, seq, idx, acc) ==
    IF idx > Len(seq) THEN Ok(ListV(acc))
    ELSE LET r == ProcessArg(p2, elemType, seq[idx]) IN
         IF r.exc # "none" THEN r
         ELSE ProcessItems(p2, elemType, seq, idx + 1, Append(acc, r.val))

\* value not in obj: suds' Object.__contains__ looks the value up among the
\* attribute names.
NotInObj(value, obj) ==
    ~(value.k = "str" /\ value.x = <<>> /\ value.s \in KeysOf(obj.attrs))

\* Line 602: isinstance(value, six.string_types).
StringGivenNever(p2, value) == FALSE
StringGiven(p2, value) == IsString(p2, value)

\* What "for x in value" yields at line 606: the elements of a list, the
\* characters of a string; any other value here is not iterable.
Iterable(value) == value.k \in {"list", "str"}
Elements(value) ==
    IF value.k = "list" THEN value.v ELSE <<StrV(value.cls, "c", <<>>)>>

ProcessArg(p2, arg_type, value) ==
    IF value.k = "suds" THEN Ok(value)
    ELSE IF ~HasTok(arg_type, ".") /\ ~HasTok(arg_type, ":") THEN Ok(value)
    ELSE IF arg_type \notin DOMAIN Schema THEN Ok(value)
    ELSE LET obj == FactoryCreate(arg_type)
             array_type == ArrayType(obj) IN
         IF value.k = "dict" THEN ProcessDict(p2, obj, value.v, 1)
         ELSE IF array_type # NoneType THEN
                 IF StringGiven(p2, value) THEN Raise("ArgumentError")
                 ELSE IF Iterable(value) THEN
                     LET r == ProcessItems(p2, array_type, Elements(value), 1, <<>>) IN
                     IF r.exc # "none" THEN r
                     ELSE Ok(SudsV(obj.cls, Append(obj.attrs, <<"items", r.val>>)))
                 \* for x in value, on a value that is not iterable
                 ELSE Raise("TypeError")
         ELSE IF obj.attrs = <<>> THEN Ok(value)
         ELSE IF NotInObj(value, obj) THEN Raise("ArgumentError")
         ELSE Ok(value)

-----------------------------------------------------------------------------
(* _NativeResultProcessor                                                  *)

\* UTF-8 of one code point below 2048.
Utf8Unit(cp) ==
    IF cp < 128 THEN <<cp>> ELSE <<192 + (cp \div 64), 128 + (cp % 64)>>
RECURSIVE Utf8(_)
Utf8(x) == IF x = <<>> THEN <<>> ELSE Utf8Unit(Head(x)) \o Utf8(Tail(x))

\* Lines 672-678: str(value.encode('utf-8')) under PY2, where encoding a byte
\* string first decodes it as ASCII; str(value) under PY3.
ConvertString(p2, v) ==
    IF p2
    THEN IF v.cls = "bytes"
         THEN IF \E i \in 1..Len(v.x) : v.x[i] >= 128
              THEN Raise("UnicodeDecodeError")
              ELSE Ok(v)
         ELSE Ok(StrV("bytes", v.s, Utf8(v.x)))
    ELSE Ok(StrV("text", v.s, v.x))

RECURSIVE ConvertToNativeType(_, _)
RECURSIVE ConvertList(_, _, _, _)
RECURSIVE ConvertAttrs(_, _, _, _)

ConvertListShallow(p2, seq, idx, acc) == Ok(ListV(seq))
ConvertList(p2, seq, idx, acc) ==
    IF idx > Len(seq) THEN Ok(ListV(acc))
    ELSE LET r == ConvertToNativeType(p2, seq[idx]) IN
         IF r.exc # "none" THEN r
         ELSE ConvertList(p2, seq, idx + 1, Append(acc, r.val))

ConvertAttrs(p2, attrs, idx, acc) ==
    IF idx > Len(attrs) THEN Ok(DictV(acc))
    ELSE LET r == ConvertToNativeType(p2, attrs[idx][2]) IN
         IF r.exc # "none" THEN r
         ELSE ConvertAttrs(p2, attrs, idx + 1,
                           Append(acc, <<attrs[idx][1], r.val>>))

\* Lines 667-671: a schema object becomes a dict of its attributes.
ConvertObjectSetOnly(p2, value) ==
    ConvertAttrs(p2, SelectSeq(value.attrs, LAMBDA a : a[2] # NoneV), 1, <<>>)
ConvertObject(p2, value) == ConvertAttrs(p2, value.attrs, 1, <<>>)

ConvertToNativeType(p2, value) ==
    CASE value.k = "list" -> ConvertList(p2, value.v, 1, <<>>)
      [] value.k = "suds" -> ConvertObject(p2, value)
      [] IsString(p2, value) -> ConvertString(p2, value)
      [] value.k = "int" -> Ok(IntV(value.i))
      [] OTHER -> Ok(value)

Process(p2, value) == ConvertToNativeType(p2, value)

-----------------------------------------------------------------------------
(* Exceptions.                                                             *)

\* An exception object: its class, its message (the pieces it was formatted
\* from) and, for a WebFault, the fault it carries.
Exc(cls, msg, fault) == [cls |-> cls, msg |-> msg, fault |-> fault]
NoExc == Exc("none", <<>>, "none")

\* The classes each exception class derives from (lines 70-91, and the
\* standard library's HTTPError, which derives from URLError).
Bases(cls) ==
    CASE cls = "ServerError" -> {"ServerError", "OperationFailed", "WebFault"}
      [] cls = "ConnectionError" -> {"ConnectionError", "OperationFailed"}
      [] cls = "ParseError" -> {"ParseError", "OperationFailed"}
      [] cls = "MethodNotFound" ->
            {"MethodNotFound", "OperationFailed", "_MethodNotFound"}
      [] cls = "ArgumentError" -> {"ArgumentError", "OperationFailed"}
      [] cls = "HTTPError" -> {"HTTPError", "URLError"}
      [] OTHER -> {cls}
IsInstance(e, cls) == cls \in Bases(e.cls)

\* What the transport and suds can raise from a remote method call.
RemoteFailures ==
    {Exc("AttributeError", <<"'NoneType' object has no attribute 'promotePrefixes'">>, "none"),
     Exc("_MethodNotFound", <<"Method not found: 'get_list'">>, "none"),
     Exc("WebFault", <<"Server raised fault">>, "fault:01070151"),
     Exc("URLError", <<"<urlopen error [Errno 111] Connection refused>">>, "none"),
     Exc("HTTPError", <<"HTTP Error 503">>, "none"),
     Exc("BadStatusLine", <<"''">>, "none"),
     Exc("SAXParseException", <<"<unknown>:1:0: syntax error">>, "none")}

\* Raw results of a remote call, as suds hands them over.
RawResults ==
    {NoneV, IntV(MaxInt), StrV("Text", "up", <<176>>),
     ListV(<<StrV("Text", "/Common/test_pool", <<>>)>>),
     SudsV(IPPortDefinition,
           << <<"address", StrV("Text", "10.10.10.10", <<>>)>>,
              <<"port", IntV(0)>> >>)}

RemoteOutcomes ==
    {[exc |-> NoExc, val |-> v] : v \in RawResults}
    \cup {[exc |-> e, val |-> NoneV] : e \in RemoteFailures}

-----------------------------------------------------------------------------
(* _DefaultArgProcessor.process and the wrapped method                     *)

RECURSIVE ProcessArgsFrom(_, _, _, _, _)
ProcessArgsFrom(p2, argspec, args, idx, acc) ==
    IF idx > Len(args) THEN Ok(ListV(acc))
    ELSE IF idx > Len(argspec) THEN Raise("ArgumentError")
    ELSE LET r == ProcessArg(p2, argspec[idx][2], args[idx]) IN
         IF r.exc # "none" THEN r
         ELSE ProcessArgsFrom(p2, argspec, args, idx + 1, Append(acc, r.val))

\* _process_args: the marshalled positional arguments, ArgumentError at the
\* first argument past the argspec (self._argspec[i] raising IndexError).
ProcessArgs(p2, argspec, args) == ProcessArgsFrom(p2, argspec, args, 1, <<>>)

RECURSIVE ProcessKwargsFrom(_, _, _, _, _)
ProcessKwargsFrom(p2, argspec, kwargs, idx, acc) ==
    IF idx > Len(kwargs) THEN Ok(DictV(acc))
    ELSE LET name == kwargs[idx][1] IN
         IF name \notin KeysOf(argspec) THEN Raise("ArgumentError")
         ELSE LET r == ProcessArg(p2, ValueAt(argspec, name), kwargs[idx][2]) IN
              IF r.exc # "none" THEN r
              ELSE ProcessKwargsFrom(p2, argspec, kwargs, idx + 1,
                                     Append(acc, <<name, r.val>>))

\* _process_kwargs: the marshalled keyword arguments, ArgumentError at the
\* first name the argspec lacks.
ProcessKwargs(p2, argspec, kwargs) ==
    ProcessKwargsFrom(p2, argspec, kwargs, 1, <<>>)

\* The except clauses of lines 483-499, in their order.
TranslateSwapped(e) ==
    IF IsInstance(e, "BadStatusLine")
    THEN Exc("ParseError", <<"BadStatusLine: ">> \o e.msg, "none")
    ELSE IF IsInstance(e, "SAXParseException")
    THEN Exc("ConnectionError", <<"Failed to parse the BIGIP's response.">>, "none")
    ELSE e
Translate(e) ==
    IF IsInstance(e, "AttributeError")
    THEN Exc("ConnectionError",
             <<"iControl call failed, possibly invalid credentials.">>, "none")
    ELSE IF IsInstance(e, "_MethodNotFound")
    THEN Exc("MethodNotFound", e.msg, e.fault)
    ELSE IF IsInstance(e, "WebFault")
    THEN Exc("ServerError", e.msg, e.fault)
    ELSE IF IsInstance(e, "URLError")
    THEN Exc("ConnectionError", <<"URLError: ">> \o e.msg, "none")
    ELSE IF IsInstance(e, "BadStatusLine")
    THEN Exc("ConnectionError", <<"BadStatusLine: ">> \o e.msg, "none")
    ELSE IF IsInstance(e, "SAXParseException")
    THEN Exc("ParseError",
             <<"Failed to parse the BIGIP's response. This was likely caused by a 500 error message.">>,
             "none")
    ELSE e

\* wrapped_method called with args and kwargs when the remote call would end
\* as rc:
\* what the caller gets (exc, val), whether the suds method was invoked, the
\* arguments it was invoked with and the failure it ended with (raw).
\* Lines 500-501: the result r of the result processor is what the caller
\* gets.
Returned(r, sent) ==
    [exc |-> IF r.exc = "none" THEN NoExc ELSE Exc(r.exc, <<>>, "none"),
     val |-> r.val, called |-> TRUE, sent |-> sent, raw |-> NoExc]
\* Lines 477-501 once process() has given a for the positional and kw for
\* the keyword arguments (kw is looked at only when a did not raise).
Invoked(p2, a, kw, rc) ==
    IF a.exc # "none"
    THEN [exc |-> Exc(a.exc, <<>>, "none"), val |-> NoneV,
          called |-> FALSE, sent |-> NoneV, raw |-> NoExc]
    ELSE IF kw.exc # "none"
    THEN [exc |-> Exc(kw.exc, <<>>, "none"), val |-> NoneV,
          called |-> FALSE, sent |-> NoneV, raw |-> NoExc]
    ELSE IF rc.exc # NoExc
    THEN [exc |-> Translate(rc.exc), val |-> NoneV,
          called |-> TRUE, sent |-> ListV(<<a.val, kw.val>>), raw |-> rc.exc]
    ELSE Returned(Process(p2, rc.val), ListV(<<a.val, kw.val>>))
WrappedMethod(p2, argspec, args, kwargs, rc) ==
    Invoked(p2, ProcessArgs(p2, argspec, args),
            ProcessKwargs(p2, argspec, kwargs), rc)

-----------------------------------------------------------------------------
(* The marshalling machine: one input is marshalled (and the marshalled    *)
(* object normalized), or one wrapped method is called.                    *)

\* Wrapped methods under test: their argspecs (name, declared type).
ArgSpecs ==
    {<<>>,
     << <<"virtual_servers", StringSequence>>, <<"descriptions", StringSequence>> >>,
     << <<"definitions", VirtualServerDefinition>>, <<"port", <<"long">> >> >>}

SeqsUpTo(S, n) == UNION {[1..m -> S] : m \in 0..n}
Injective(f) == \A i, j \in DOMAIN f : f[i][1] = f[j][1] => i = j
\* Items of a dict with keys among K and values among V, in every order.
PairSeqs(K, V, n) == {f \in SeqsUpTo(K \X V, n) : Injective(f)}

Ints == {IntV(i) : i \in 0..MaxInt}
Strings ==
    {Txt("abc"), Txt("PROTOCOL_TCP"), Txt("address"), StrV("text", "deg", <<176>>)}
    \cup {StrV("bytes", "abc", <<>>), StrV("bytes", "deg", <<194, 176>>)}
Scalars == Ints \cup Strings \cup {NoneV}
FlatLists == {ListV(f) : f \in SeqsUpTo({IntV(0), Txt("abc")}, MaxLen)}
FlatDicts ==
    {DictV(f) : f \in PairSeqs({"address", "port", "bogus"},
                               {IntV(0), Txt("abc"), StrV("text", "deg", <<176>>)}, 2)}
NestedLists ==
    {ListV(f) : f \in SeqsUpTo({IntV(0), Txt("abc"), ListV(<<Txt("abc")>>),
                                DictV(<< <<"address", Txt("abc")>> >>)}, MaxLen)}
NestedDicts ==
    {DictV(f) : f \in PairSeqs({"name", "protocol", "member", "aliases"},
                               {Txt("abc"), Txt("PROTOCOL_TCP"),
                                ListV(<<Txt("abc")>>),
                                DictV(<< <<"port", IntV(0)>> >>)}, 2)}
UserObjects == {SudsV(IPPortDefinition, << <<"address", Txt("abc")>> >>)}
Values ==
    Scalars \cup FlatLists \cup FlatDicts \cup NestedLists \cup NestedDicts
    \cup UserObjects

\* Under PY3 the inputs hold no bytes objects.
Admissible(p2, v) == p2 \/ ~(v.k = "str" /\ v.cls = "bytes")

ArgVals == {IntV(0), Txt("abc"), ListV(<<Txt("abc")>>), DictV(<< <<"name", Txt("abc")>> >>)}
KwNames == {"virtual_servers", "descriptions", "definitions", "bogus"}

ArgInputs == {[kind |-> "arg", type |-> t, value |-> v] : t \in TypeNames, v \in Values}
CallInputs ==
    {[kind |-> "call", argspec |-> a, args |-> x, kwargs |-> kw] :
        a \in ArgSpecs,
        x \in UNION {SeqsUpTo(ArgVals, Len(a) + 1) : a \in ArgSpecs},
        kw \in PairSeqs(KwNames, {Txt("abc"), ListV(<<Txt("abc")>>)}, 1)}

\* Values suds hands over as the result of a remote call: None (a method
\* that returns nothing, an empty element), integers, Text, schema objects
\* and lists, nested.
ResultAtoms ==
    {NoneV, IntV(12345), StrV("Text", "up", <<176>>), StrV("Text", "abc", <<>>)}
ResultObjects ==
    {SudsV(IPPortDefinition, << <<"address", a>>, <<"port", n>> >>) :
        a \in {StrV("Text", "10.10.10.10", <<>>), NoneV},
        n \in {IntV(12345), IntV(MaxInt)}}
ResultLists ==
    {ListV(f) : f \in SeqsUpTo({IntV(MaxInt), StrV("Text", "abc", <<>>)}
                                \cup ResultObjects, MaxLen)}
ResultNested ==
    {ListV(<<l, m>>) : l, m \in {x \in ResultLists : Len(x.v) = 1}}
    \cup {SudsV(VirtualServerDefinition,
                << <<"name", StrV("Text", "vip", <<>>)>>, <<"member", o>>,
                   <<"aliases", l>> >>) :
             o \in ResultObjects, l \in {x \in ResultLists : Len(x.v) <= 1}}
Results == ResultAtoms \cup ResultObjects \cup ResultLists \cup ResultNested
ResultInputs == {[kind |-> "result", value |-> v] : v \in Results}

NoOut ==
    [exc |-> NoExc, val |-> NoneV, called |-> FALSE, sent |-> NoneV, raw |-> NoExc]

FacadeIdle ==
    /\ v11 = TRUE /\ insts = <<>> /\ objs = <<>> /\ fetched = <<>>
    /\ last = NoneV
    /\ txn = [pc |-> "none"]

MInit ==
    /\ py2 \in BOOLEAN
    /\ mIn \in {x \in ArgInputs : Admissible(py2, x.value)}
               \cup {x \in CallInputs : Len(x.args) <= Len(x.argspec) + 1}
               \cup ResultInputs
    /\ mOut = NoOut
    /\ mPc = "start"
    /\ FacadeIdle

\* _process_arg on the input.
MarshalArg ==
    /\ mPc = "start" /\ mIn.kind = "arg"
    /\ LET r == ProcessArg(py2, mIn.type, mIn.value) IN
       mOut' = [exc |-> IF r.exc = "none" THEN NoExc ELSE Exc(r.exc, <<>>, "none"),
                val |-> r.val, called |-> FALSE, sent |-> NoneV, raw |-> NoExc]
    /\ mPc' = "marshalled"
    /\ UNCHANGED <<py2, mIn, facadeVars>>

\* _NativeResultProcessor.process on what the marshaller returned.
NormalizeMarshalled ==
    /\ mPc = "marshalled" /\ mOut.exc = NoExc
    /\ LET r == Process(py2, mOut.val) IN
       mOut' = [exc |-> IF r.exc = "none" THEN NoExc ELSE Exc(r.exc, <<>>, "none"),
                val |-> r.val, called |-> FALSE, sent |-> mOut.val, raw |-> NoExc]
    /\ mPc' = "normalized"
    /\ UNCHANGED <<py2, mIn, facadeVars>>

\* One call of a wrapped method; the remote side answers any way it can.
CallWrapped ==
    /\ mPc = "start" /\ mIn.kind = "call"
    /\ \E rc \in RemoteOutcomes :
          mOut' = WrappedMethod(py2, mIn.argspec, mIn.args, mIn.kwargs, rc)
    /\ mPc' = "returned"
    /\ UNCHANGED <<py2, mIn, facadeVars>>

\* _NativeResultProcessor.process on a result of the remote call.
NormalizeResult ==
    /\ mPc = "start" /\ mIn.kind = "result"
    /\ LET r == Process(py2, mIn.value) IN
       mOut' = [exc |-> IF r.exc = "none" THEN NoExc ELSE Exc(r.exc, <<>>, "none"),
                val |-> r.val, called |-> FALSE, sent |-> NoneV, raw |-> NoExc]
    /\ mPc' = "processed"
    /\ UNCHANGED <<py2, mIn, facadeVars>>

MNext == MarshalArg \/ NormalizeMarshalled \/ CallWrapped \/ NormalizeResult

SpecMarshal == MInit /\ [][MNext]_vars

-----------------------------------------------------------------------------
(* Properties of the marshalling machine (SpecMarshal).                    *)

IsArrayTypeName(t) == t \in DOMAIN Schema /\ Schema[t].kind = "array"
IsStructTypeName(t) == t \in DOMAIN Schema /\ Schema[t].kind = "struct"
FiveKinds ==
    {"ServerError", "ConnectionError", "ParseError", "MethodNotFound",
     "ArgumentError"}

\* Python's == on native values: dicts compare without regard to order;
\* under PY2 a text string equals a byte string only when both are ASCII.
RECURSIVE PyEq(_, _, _)
PyEq(p2, a, b) ==
    CASE a.k = "str" /\ b.k = "str" ->
            IF (a.cls = "bytes") = (b.cls = "bytes")
            THEN a.s = b.s /\ a.x = b.x
            ELSE p2 /\ a.s = b.s /\ a.x = <<>> /\ b.x = <<>>
      [] a.k = "int" /\ b.k = "int" -> a.i = b.i
      [] a.k = "list" /\ b.k = "list" ->
            /\ Len(a.v) = Len(b.v)
            /\ \A i \in 1..Len(a.v) : PyEq(p2, a.v[i], b.v[i])
      [] a.k = "dict" /\ b.k = "dict" ->
            /\ KeysOf(a.v) = KeysOf(b.v)
            /\ \A key \in KeysOf(a.v) :
                  PyEq(p2, ValueAt(a.v, key), ValueAt(b.v, key))
      [] OTHER -> a = b

\* C2 as claimed: a call with more positional arguments than the argspec has
\* parameters raises ArgumentError and never invokes the suds method.
C2_TooManyPositionalRaisesArgumentError ==
    (mPc = "returned" /\ Len(mIn.args) > Len(mIn.argspec))
        => (mOut.exc.cls = "ArgumentError" /\ ~mOut.called)

\* C3 as claimed: a call with a keyword argument whose name the argspec
\* lacks raises ArgumentError and never invokes the suds method.
C3_UnknownKeywordRaisesArgumentError ==
    (mPc = "returned"
        /\ \E i \in 1..Len(mIn.kwargs) :
              mIn.kwargs[i][1] \notin KeysOf(mIn.argspec))
        => (mOut.exc.cls = "ArgumentError" /\ ~mOut.called)

\* A string sits where the schema declares an array: at the value itself,
\* at an element of a list given for an array of arrays, or at a key of a
\* mapping given for a complex type whose attribute is an array.
RECURSIVE StringAtArray(_, _, _)
StringAtArray(p2, t, v) ==
    IF t \notin DOMAIN Schema THEN FALSE
    ELSE CASE Schema[t].kind = "array" ->
                 \/ IsString(p2, v)
                 \/ /\ v.k = "list"
                    /\ \E i \in 1..Len(v.v) : StringAtArray(p2, Schema[t].elem, v.v[i])
           [] Schema[t].kind = "struct" ->
                 /\ v.k = "dict"
                 /\ \E i \in 1..Len(v.v), j \in 1..Len(Schema[t].fields) :
                       /\ v.v[i][1] = Schema[t].fields[j][1]
                       /\ StringAtArray(p2, Schema[t].fields[j][2], v.v[i][2])
           [] OTHER -> FALSE

\* An array object whose items are the characters of a string.
RECURSIVE HasCharItems(_)
HasCharItems(v) ==
    CASE v.k = "suds" ->
            \E i \in 1..Len(v.attrs) :
               \/ /\ v.attrs[i][1] = "items" /\ IsArrayTypeName(v.cls)
                  /\ \E j \in 1..Len(v.attrs[i][2].v) :
                        LET e == v.attrs[i][2].v[j] IN e.k = "str" /\ e.s = "c"
               \/ HasCharItems(v.attrs[i][2])
      [] v.k = "list" -> \E i \in 1..Len(v.v) : HasCharItems(v.v[i])
      [] OTHER -> FALSE

RECURSIVE Embeds(_, _, _, _)
Embeds(p2, t, orig, res) ==
    LET fields == Schema[t].fields IN
    /\ res.k = "dict"
    /\ [i \in 1..Len(res.v) |-> res.v[i][1]]
          = [i \in 1..Len(fields) |-> fields[i][1]]
    /\ KeysOf(orig.v) \subseteq KeysOf(res.v)
    /\ \A i \in 1..Len(fields) :
          LET name == fields[i][1]
              ft == fields[i][2]
              rv == ValueAt(res.v, name) IN
          IF name \in KeysOf(orig.v)
          THEN LET ov == ValueAt(orig.v, name) IN
               CASE ov.k = "dict" /\ IsStructTypeName(ft) -> Embeds(p2, ft, ov, rv)
                 [] ov.k = "int" /\ ft \notin DOMAIN Schema -> rv = ov
                 [] ov.k = "str" /\ ft \notin DOMAIN Schema ->
                       /\ rv.k = "str" /\ rv.s = ov.s
                       /\ (~p2 \/ ov.x = <<>>) => PyEq(p2, rv, ov)
                 [] OTHER -> TRUE
          ELSE ft \notin DOMAIN Schema => rv = NoneV

Mentions(msg, part) ==
    \E i \in 1..Len(msg) :
        i + Len(part) - 1 <= Len(msg) /\ SubSeq(msg, i, i + Len(part) - 1) = part

\* C6: when the remote call inside a wrapped method fails, the caller gets
\* the failure translated by its kind: a method the service lacks is
\* MethodNotFound; a WebFault is ServerError with the same fault; a URLError
\* is ConnectionError with the URLError's message in its message; a
\* BadStatusLine is ConnectionError; a SAXParseException is ParseError; an
\* AttributeError is ConnectionError saying the credentials may be invalid.
C6_RemoteFailureTranslatedByKind ==
    (mPc = "returned" /\ mOut.called /\ mOut.raw # NoExc)
        => /\ mOut.raw.cls = "_MethodNotFound" => mOut.exc.cls = "MethodNotFound"
           /\ mOut.raw.cls = "WebFault"
                 => mOut.exc.cls = "ServerError" /\ mOut.exc.fault = mOut.raw.fault
           /\ IsInstance(mOut.raw, "URLError")
                 => /\ mOut.exc.cls = "ConnectionError"
                    /\ Mentions(mOut.exc.msg, mOut.raw.msg)
           /\ mOut.raw.cls = "BadStatusLine" => mOut.exc.cls = "ConnectionError"
           /\ mOut.raw.cls = "SAXParseException" => mOut.exc.cls = "ParseError"
           /\ mOut.raw.cls = "AttributeError"
                 => /\ mOut.exc.cls = "ConnectionError"
                    /\ Mentions(mOut.exc.msg,
                         <<"iControl call failed, possibly invalid credentials.">>)

\* A call whose arguments marshalled got a response that is not XML.
C6_Witness ==
    /\ mPc = "returned" /\ mOut.called
    /\ mOut.raw.cls = "SAXParseException"
    /\ mOut.exc.cls = "ParseError"

\* The outcome the seven rules give for a declared type t and a value v, the
\* first applicable rule deciding: (1) a schema object is returned as it
\* is; (2) so is any value for a type without qualifier; (3) and for a type
\* the schema lacks; (4) a mapping gives the type's object with each key
\* assigned the outcome for the key's declared type, an unknown key raising
\* ArgumentError; (5) an array type rejects a string with ArgumentError and
\* otherwise gives its object with the outcomes of the elements, in order,
\* for the element type; (6) a type whose object has no attributes returns
\* the value; (7) any other type returns the value if it is one of the
\* object's members and raises ArgumentError if not.
RECURSIVE Rule(_, _, _)
RECURSIVE RuleKeys(_, _, _, _, _)
RECURSIVE RuleElements(_, _, _, _, _)
DeclaredType(t, name) ==
    IF Schema[t].kind = "struct" /\ name \in KeysOf(Schema[t].fields)
    THEN ValueAt(Schema[t].fields, name) ELSE NoneType
Members(t) ==
    CASE Schema[t].kind = "enum" ->
            {Schema[t].members[i] : i \in 1..Len(Schema[t].members)}
      [] Schema[t].kind = "struct" -> KeysOf(Schema[t].fields)
      [] OTHER -> {}
RuleKeys(p2, t, obj, pairs, idx) ==
    IF idx > Len(pairs) THEN Ok(obj)
    ELSE IF pairs[idx][1] \notin Members(t) THEN Raise("ArgumentError")
    ELSE LET r == Rule(p2, DeclaredType(t, pairs[idx][1]), pairs[idx][2]) IN
         IF r.exc # "none" THEN r
         ELSE RuleKeys(p2, t, SudsV(obj.cls, SetAt(obj.attrs, pairs[idx][1], r.val)),
                       pairs, idx + 1)
RuleElements(p2, elem, seq, idx, acc) ==
    IF idx > Len(seq) THEN Ok(ListV(acc))
    ELSE LET r == Rule(p2, elem, seq[idx]) IN
         IF r.exc # "none" THEN r
         ELSE RuleElements(p2, elem, seq, idx + 1, Append(acc, r.val))
Rule(p2, t, v) ==
    IF v.k = "suds" THEN Ok(v)
    ELSE IF ~HasTok(t, ".") /\ ~HasTok(t, ":") THEN Ok(v)
    ELSE IF t \notin DOMAIN Schema THEN Ok(v)
    ELSE IF v.k = "dict" THEN RuleKeys(p2, t, FactoryCreate(t), v.v, 1)
    ELSE IF Schema[t].kind = "array"
    THEN IF IsString(p2, v) THEN Raise("ArgumentError")
         ELSE LET r == RuleElements(p2, Schema[t].elem,
                                    IF v.k = "list" THEN v.v ELSE <<>>, 1, <<>>) IN
              IF r.exc # "none" THEN r
              ELSE Ok(SudsV(t, <<<<"items", r.val>>>>))
    ELSE IF Members(t) = {} THEN Ok(v)
    ELSE IF v.k = "str" /\ v.x = <<>> /\ v.s \in Members(t) THEN Ok(v)
    ELSE Raise("ArgumentError")

\* C14 as claimed: for every declared type and value _process_arg gives the
\* outcome of the first applicable of the seven rules.
C14_FirstApplicableRuleDecides ==
    mPc = "marshalled"
        => LET r == Rule(py2, mIn.type, mIn.value) IN
           /\ mOut.exc = (IF r.exc = "none" THEN NoExc ELSE Exc(r.exc, <<>>, "none"))
           /\ mOut.val = r.val

\* v holds mappings, sequences, strings and integers only.
RECURSIVE OnlyFourKinds(_)
OnlyFourKinds(v) ==
    CASE v.k = "dict" -> \A i \in 1..Len(v.v) : OnlyFourKinds(v.v[i][2])
      [] v.k = "list" -> \A i \in 1..Len(v.v) : OnlyFourKinds(v.v[i])
      [] v.k = "str" -> v.cls # "Text"
      [] v.k = "int" -> TRUE
      [] OTHER -> FALSE

\* C13 as claimed: what the caller receives for a result holds only
\* mappings, sequences, strings and integers.
C13_OnlyMappingsSequencesStringsIntegers ==
    mPc = "processed" => mOut.exc = NoExc /\ OnlyFourKinds(mOut.val)

\* r is v with no schema type left in it: a list is a list of the same
\* length, element by element in order; a schema object is a mapping with
\* the object's attribute names, each with its attribute's value; Text is a
\* native string of the same text; an integer is that integer; None is None.
RECURSIVE Mirrors(_, _)
Mirrors(v, r) ==
    CASE v.k = "list" ->
            /\ r.k = "list" /\ Len(r.v) = Len(v.v)
            /\ \A i \in 1..Len(v.v) : Mirrors(v.v[i], r.v[i])
      [] v.k = "suds" ->
            /\ r.k = "dict" /\ Len(r.v) = Len(v.attrs)
            /\ \A i \in 1..Len(v.attrs) :
                  r.v[i][1] = v.attrs[i][1] /\ Mirrors(v.attrs[i][2], r.v[i][2])
      [] v.k = "str" -> r.k = "str" /\ r.cls \in {"bytes", "text"} /\ r.s = v.s
      [] v.k = "int" -> r = IntV(v.i)
      [] OTHER -> r = v

\* C13, amended: what the caller receives for a result holds no schema
\* object and no Text at any depth: sequences keep their order, a schema
\* object becomes a mapping with exactly its attribute names, strings and
\* integers become native ones (12345 is 12345); None, which a method that
\* returns nothing or an empty element gives, stays None.
C13_NoSchemaTypeLeft ==
    mPc = "processed" => mOut.exc = NoExc /\ Mirrors(mIn.value, mOut.val)

\* A list of one address object went through: a list of one mapping with
\* the keys address and port, the port the native 12345.
C13_Witness ==
    /\ mPc = "processed" /\ mOut.exc = NoExc
    /\ mIn.value.k = "list" /\ Len(mIn.value.v) = 1
    /\ mIn.value.v[1].k = "suds"
    /\ mOut.val.k = "list" /\ mOut.val.v[1].k = "dict"
    /\ [i \in 1..2 |-> mOut.val.v[1].v[i][1]] = <<"address", "port">>
    /\ mOut.val.v[1].v[2][2] = IntV(12345)

\* C7 as claimed: whatever a call of a wrapped method raises is an
\* OperationFailed of exactly one of the five kinds.
C7_OnlyTheFiveKindsEscape ==
    (mPc = "returned" /\ mOut.exc # NoExc)
        => /\ IsInstance(mOut.exc, "OperationFailed")
           /\ Cardinality({c \in FiveKinds : IsInstance(mOut.exc, c)}) = 1

-----------------------------------------------------------------------------
(* The appliance, as the facade meets it.                                  *)

DefaultTimeout == 90
DefaultPort == 443

System == <<"System">>
LocalLB == <<"LocalLB">>
Session == <<"Session">>
Pool == <<"Pool">>
get_session_identifier == <<"get", "_", "session", "_", "identifier">>
start_transaction == <<"start", "_", "transaction">>
submit_transaction == <<"submit", "_", "transaction">>
rollback_transaction == <<"rollback", "_", "transaction">>
get_member == <<"get", "_", "member">>

\* '%s.%s' % (self._name, attr)
Path(name, attr) == name \o <<".">> \o attr

\* The namespaces the appliance serves a WSDL for.
WsdlPaths == {Path(System, Session), Path(LocalLB, Pool)}
\* What get_wsdls finds: each top-level namespace with its attribute list.
WsdlHierarchy == << <<System, <<Session>> >>, <<LocalLB, <<Pool>> >> >>

\* The operations each WSDL declares, in the order of its port.
WsdlMethods(path) ==
    IF path = Path(System, Session)
    THEN IF v11
         THEN <<get_session_identifier, start_transaction, submit_transaction,
                rollback_transaction>>
         ELSE <<>>
    ELSE IF path = Path(LocalLB, Pool) THEN <<get_member>>
    ELSE <<>>
Range(seq) == {seq[i] : i \in 1..Len(seq)}

\* _make_argspec: the parts of the method's input message.
MakeArgspec(path, name) ==
    IF name = get_member THEN << <<"pool_names", StringSequence>> >> ELSE <<>>

\* How get_client can end: the appliance answers (a WSDL for a namespace it
\* serves, a page that does not parse for any other), or the transport
\* fails.
Answers == Exc("answers", <<>>, "none")
GetClientFailures ==
    {Exc("URLError", <<"<urlopen error timed out>">>, "none"),
     Exc("TransportError", <<"Unauthorized">>, "none")}
GetClientOutcome(path, gc) ==
    IF gc # Answers THEN gc
    ELSE IF path \in WsdlPaths THEN NoExc
    ELSE Exc("SAXParseException", <<"<unknown>:1:0: syntax error">>, "none")

-----------------------------------------------------------------------------
(* The facade: BIGIP, _BIGIPSession, _Namespace, _ClientWrapper.           *)
(* An operation takes the heap S (instances, objects, the clients fetched, *)
(* the get_client calls and the remote calls the operation has made so     *)
(* far) and gives the heap after it with what it returned or raised.       *)

Cur ==
    [insts |-> insts, objs |-> objs, fetched |-> fetched, gets |-> <<>>,
     log |-> <<>>]
Res(S, ret, exc) == [S |-> S, ret |-> ret, exc |-> exc]
Ref(id) == [k |-> "obj", id |-> id]
InstRef(i) == [k |-> "inst", i |-> i]
Literal(name) == [k |-> "literal", name |-> name]

\* The identity of a new object: what it is (kind, owning instance, name)
\* and how many of these were made before it.
NewId(S, t, owner, path, name) ==
    [t |-> t, owner |-> owner, path |-> path, name |-> name,
     n |-> 1 + Cardinality({id \in DOMAIN S.objs :
                  /\ id.t = t /\ id.owner = owner
                  /\ id.path = path /\ id.name = name})]
Alloc(S, id, obj) == [S EXCEPT !.objs = @ @@ (id :> obj)]

NoHeaders == <<>>
\* str(x) of a native value.
Digit(d) ==
    CASE d = 0 -> "0" [] d = 1 -> "1" [] d = 2 -> "2" [] d = 3 -> "3"
      [] d = 4 -> "4" [] d = 5 -> "5" [] d = 6 -> "6" [] d = 7 -> "7"
      [] d = 8 -> "8" [] d = 9 -> "9"
RECURSIVE DecStr(_)
DecStr(n) == IF n < 10 THEN Digit(n) ELSE DecStr(n \div 10) \o Digit(n % 10)
Str(v) ==
    CASE v.k = "int" -> Txt(DecStr(v.i))
      [] v.k = "str" -> v
      [] v.k = "none" -> Txt("None")
      [] OTHER -> Txt("<repr>")
\* {'X-iControl-Session': str(session_id)}
SessionHeaders(session_id) == << <<"X-iControl-Session", Str(session_id)>> >>

StartsWithDunder(attr) == Len(attr) >= 2 /\ attr[1] = "_" /\ attr[2] = "_"
FirstUnderscore(attr) == CHOOSE i \in 1..Len(attr) :
    attr[i] = "_" /\ \A j \in 1..(i - 1) : attr[j] # "_"
\* attr.split('_', 1)
SplitFirst(attr) == SubSeq(attr, 1, FirstUnderscore(attr) - 1)
SplitSecond(attr) == SubSeq(attr, FirstUnderscore(attr) + 1, Len(attr))

\* The attributes normal lookup finds on an instance besides the cached
\* namespaces: what __init__ stored and what the class defines.
InstanceLiteralsNone(inst) == {}
InstanceLiterals(inst) ==
    {<<"_", "hostname">>, <<"_", "port">>, <<"_", "username">>,
     <<"_", "password">>, <<"_", "debug">>, <<"_", "cachedir">>,
     <<"_", "verify">>, <<"_", "timeout">>,
     <<"with", "_", "session", "_", "id">>, <<"_", "create", "_", "client">>,
     <<"_", "create", "_", "client", "_", "wrapper">>,
     <<"_", "arg", "_", "processor", "_", "factory">>,
     <<"_", "instantiate", "_", "namespaces">>}
    \cup (IF inst.cls = "_BIGIPSession" THEN {<<"_", "headers">>} ELSE {})
NamespaceLiterals ==
    {<<"_", "name">>, <<"_", "client", "_", "creator">>, <<"_", "attrs">>,
     <<"set", "_", "attr", "_", "list">>}

\* _ClientWrapper.__getattr__ behind normal lookup: the cached wrapper, or
\* the suds method wrapped and stored; MethodNotFound for a method the WSDL
\* lacks.
StoreMethod(d, attr, id) == d @@ (attr :> id)
CwGetattr(S, c, attr) ==
    LET o == S.objs[c]
        id == NewId(S, "meth", o.owner, o.path, attr)
    IN  IF attr \in DOMAIN o.d THEN Res(S, Ref(o.d[attr]), NoExc)
        ELSE IF attr \notin Range(WsdlMethods(o.path))
        THEN Res(S, NoneV,
                 Exc("MethodNotFound", <<"Method not found: ">> \o attr, "none"))
        ELSE Res([Alloc(S, id, [t |-> "meth", owner |-> o.owner, path |-> o.path,
                                name |-> attr, cw |-> c, d |-> <<>>])
                    EXCEPT !.objs[c].d = StoreMethod(@, attr, id)],
                 Ref(id), NoExc)

\* Lines 424-425: with debug, every method of the port is looked up once.
RECURSIVE PopulateMethods(_, _, _, _)
PopulateMethods(S, c, methods, idx) ==
    IF idx > Len(methods) THEN S
    ELSE PopulateMethods(CwGetattr(S, c, methods[idx]).S, c, methods, idx + 1)

\* The headers option a new client wrapper's suds client carries:
\* _BIGIPSession._create_client_wrapper sets the instance's _headers on it,
\* BIGIP._create_client_wrapper leaves it as get_client made it.
ClientHeadersUnset(inst) == NoHeaders
ClientHeaders(inst) ==
    IF inst.cls = "_BIGIPSession" THEN inst.headers ELSE NoHeaders

\* _create_client_wrapper and _ClientWrapper.__init__.
CreateClientWrapper(S, i, path) ==
    LET id == NewId(S, "cw", i, path, <<>>)
        S1 == Alloc(S, id, [t |-> "cw", owner |-> i, path |-> path,
                            hdr |-> ClientHeaders(S.insts[i]), d |-> <<>>])
    IN Res(IF S.insts[i].debug
           THEN PopulateMethods(S1, id, WsdlMethods(path), 1)
           ELSE S1,
           Ref(id), NoExc)

\* Lines 185-186: '%s\nFailed to parse wsdl. Is "%s" a valid namespace?'
\* % (e, wsdl_name)
ParseErrorTextNoPath(e, path) == e.msg \o <<"\nFailed to parse wsdl.">>
ParseErrorText(e, path) ==
    e.msg \o <<"\nFailed to parse wsdl. Is \"">> \o path
          \o <<"\" a valid namespace?">>

\* BIGIP._create_client when get_client ends as gc.
CreateClient(S, i, path, gc) ==
    LET e == GetClientOutcome(path, gc)
        S1 == [S EXCEPT
                  !.gets = Append(@, [inst |-> i, path |-> path, ok |-> e = NoExc,
                                      err |-> e]),
                  !.fetched = IF e = NoExc
                              THEN @ (+) SetToBag({[inst |-> i, path |-> path]})
                              ELSE @]
    IN IF IsInstance(e, "SAXParseException")
       THEN Res(S1, NoneV, Exc("ParseError", ParseErrorText(e, path), "none"))
       ELSE IF IsInstance(e, "URLError") \/ IsInstance(e, "TransportError")
       THEN Res(S1, NoneV, Exc("ConnectionError", e.msg, "none"))
       ELSE CreateClientWrapper(S1, i, path)

\* _Namespace.__getattr__ behind normal lookup.
StoreClientNever(d, attr, id) == d
StoreClient(d, attr, id) == d @@ (attr :> id)
\* Lines 379-381: the client r that the creator gave is stored and
\* returned; what the creator raised is raised.
ClientStoredAnyway(r, n, attr) ==
    Res([r.S EXCEPT !.objs[n].d = @ @@ (attr :> n)], r.ret, r.exc)
ClientStored(r, n, attr) ==
    IF r.exc # NoExc THEN r
    ELSE Res([r.S EXCEPT !.objs[n].d = StoreClient(@, attr, r.ret.id)],
             r.ret, NoExc)
NsGetattr(S, n, attr, gc) ==
    LET o == S.objs[n] IN
    IF attr \in DOMAIN o.d THEN Res(S, Ref(o.d[attr]), NoExc)
    ELSE IF attr \in NamespaceLiterals THEN Res(S, Literal(attr), NoExc)
    ELSE IF StartsWithDunder(attr)
    THEN Res(S, NoneV, Exc("AttributeError", attr, "none"))
    ELSE ClientStored(CreateClient(S, o.owner, Path(o.name, attr), gc), n, attr)

\* getattr on anything but an instance.
GetattrObj(S, ref, attr, gc) ==
    IF ref.k # "obj" THEN Res(S, NoneV, Exc("AttributeError", attr, "none"))
    ELSE CASE ref.id.t = "ns" -> NsGetattr(S, ref.id, attr, gc)
           [] ref.id.t = "cw" -> CwGetattr(S, ref.id, attr)
           [] OTHER -> Res(S, NoneV, Exc("AttributeError", attr, "none"))

\* BIGIP.__getattr__ behind normal lookup.
StoreNamespace(d, attr, id) == d @@ (attr :> id)
\* getattr(<what r returned>, attr), r being the outcome of getattr(self,
\* first).
ThenGetattrObj(r, attr, gc) ==
    IF r.exc # NoExc THEN r ELSE GetattrObj(r.S, r.ret, attr, gc)
RECURSIVE BigipGetattr(_, _, _, _)
BigipGetattr(S, i, attr, gc) ==
    IF attr \in DOMAIN S.insts[i].d THEN Res(S, Ref(S.insts[i].d[attr]), NoExc)
    ELSE IF attr \in InstanceLiterals(S.insts[i]) THEN Res(S, Literal(attr), NoExc)
    ELSE IF StartsWithDunder(attr)
    THEN Res(S, NoneV, Exc("AttributeError", attr, "none"))
    ELSE IF HasTok(attr, "_")
    THEN ThenGetattrObj(BigipGetattr(S, i, SplitFirst(attr), gc),
                        SplitSecond(attr), gc)
    ELSE LET id == NewId(S, "ns", i, attr, <<>>) IN
         Res([Alloc(S, id, [t |-> "ns", owner |-> i, name |-> attr,
                            attrs |-> <<>>, d |-> <<>>])
                EXCEPT !.insts[i].d = StoreNamespace(@, attr, id)],
             Ref(id), NoExc)

Getattr(S, ref, attr, gc) ==
    IF ref.k = "inst" THEN BigipGetattr(S, ref.i, attr, gc)
    ELSE GetattrObj(S, ref, attr, gc)

\* Calling what an attribute access returned: a wrapped method runs, and
\* its remote call (when it gets that far) is recorded with the headers its
\* client carries.
Logged(S, o, w, src) ==
    Res(IF w.called
        THEN [S EXCEPT !.log = Append(@,
                 [inst |-> o.owner, path |-> o.path, method |-> o.name,
                  hdr |-> S.objs[o.cw].hdr, src |-> src])]
        ELSE S,
        w.val, w.exc)
CallWrapper(S, o, args, kwargs, rc, src) ==
    Logged(S, o,
           WrappedMethod(py2, MakeArgspec(o.path, o.name), args, kwargs, rc),
           src)
CallMethod(S, ref, args, kwargs, rc, src) ==
    IF ref.k # "obj" \/ ref.id.t # "meth"
    THEN Res(S, NoneV, Exc("TypeError", <<"not callable">>, "none"))
    ELSE CallWrapper(S, S.objs[ref.id], args, kwargs, rc, src)

\* <instance>.<ns>.<sub>.<method> called with args, as with_session_id and
\* Transaction
\* write it.
ThenCall(r, args, env, src) ==
    IF r.exc # NoExc THEN r
    ELSE CallMethod(r.S, r.ret, args, <<>>, env.rc, src)
ThenGetattr(r, attr, env) ==
    IF r.exc # NoExc THEN r ELSE Getattr(r.S, r.ret, attr, env.gc)
Invoke(S, i, ns, sub, method, args, env, src) ==
    ThenCall(ThenGetattr(ThenGetattr(BigipGetattr(S, i, ns, env.gc), sub, env),
                         method, env),
             args, env, src)

\* _instantiate_namespaces when get_wsdls ends as ws: a namespace object per
\* top-level namespace found, with its attribute list.
\* ns.set_attr_list(attr_list) on the namespace r returned.
SetAttrList(r, attr_list) == [r.S EXCEPT !.objs[r.ret.id].attrs = attr_list]
RECURSIVE InstantiateFrom(_, _, _)
InstantiateFrom(S, i, idx) ==
    IF idx > Len(WsdlHierarchy) THEN S
    ELSE InstantiateFrom(SetAttrList(BigipGetattr(S, i, WsdlHierarchy[idx][1], Answers),
                                     WsdlHierarchy[idx][2]),
                         i, idx + 1)
InstantiateNamespaces(S, i, ws) ==
    IF ws # Answers THEN Res(S, NoneV, Exc("ConnectionError", ws.msg, "none"))
    \* regex.search(line), a str pattern on the bytes PY3's readlines() gives
    ELSE IF ~py2 THEN Res(S, NoneV, Exc("TypeError", <<"cannot use a string pattern on a bytes-like object">>, "none"))
    ELSE Res(InstantiateFrom(S, i, 1), NoneV, NoExc)

\* BIGIP.__init__ (cls "BIGIP") and _BIGIPSession.__init__: the heap with the
\* new instance, or what the constructor raised.
\* Lines 135-145: the parameters stored on the new instance.
NewInstance(S, cls, p, session_id) ==
    [S EXCEPT !.insts = Append(@,
        [cls |-> cls, hostname |-> p.hostname, port |-> p.port,
         username |-> p.username, password |-> p.password,
         debug |-> p.debug, cachedir |-> p.cachedir,
         verify |-> p.verify, timeout |-> p.timeout,
         sid |-> session_id, headers |-> NoHeaders, d |-> <<>>])]
\* Lines 144-145.
Instantiated(S1, i, debug, ws) ==
    IF debug THEN InstantiateNamespaces(S1, i, ws) ELSE Res(S1, NoneV, NoExc)
\* The constructor ends: r is how BIGIP.__init__ went for instance i;
\* _BIGIPSession.__init__ then sets _headers (line 343).
Constructed(S, r, cls, i, session_id) ==
    IF r.exc # NoExc THEN Res(S, NoneV, r.exc)
    ELSE IF cls = "_BIGIPSession"
    THEN Res([r.S EXCEPT !.insts[i].headers = SessionHeaders(session_id)],
             InstRef(i), NoExc)
    ELSE Res(r.S, InstRef(i), NoExc)
Construct(S, cls, p, session_id, ws) ==
    Constructed(S,
                Instantiated(NewInstance(S, cls, p, session_id),
                             Len(S.insts) + 1, p.debug, ws),
                cls, Len(S.insts) + 1, session_id)

\* BIGIP.with_session_id.
\* Lines 163-164: the session id given, or the one the appliance gives.
SessionIdFor(S, i, session_id, env, src) ==
    IF session_id = NoneV
    THEN Invoke(S, i, System, Session, get_session_identifier, <<>>, env, src)
    ELSE Res(S, session_id, NoExc)
\* Lines 165-166: _BIGIPSession(hostname, session_id, username, password,
\* debug, cachedir), the other parameters at their defaults.
SessionOf(r, me, env) ==
    IF r.exc # NoExc THEN r
    ELSE Construct(r.S, "_BIGIPSession",
                   [hostname |-> me.hostname, username |-> me.username,
                    password |-> me.password, debug |-> me.debug,
                    cachedir |-> me.cachedir, verify |-> FALSE,
                    timeout |-> DefaultTimeout, port |-> DefaultPort],
                   r.ret, env.ws)
WithSessionId(S, i, session_id, env, src) ==
    SessionOf(SessionIdFor(S, i, session_id, env, src), S.insts[i], env)

\* Transaction.__enter__
Entered(r, i) == IF r.exc # NoExc THEN r ELSE Res(r.S, InstRef(i), NoExc)
TransactionEnter(S, i, env) ==
    Entered(Invoke(S, i, System, Session, start_transaction, <<>>, env, "enter"), i)

\* Transaction.__exit__ for a body that ended with exception e (NoExc: it
\* ended cleanly): submit or roll back, a ServerError of the rollback
\* ignored; it returns None.
FinalizerAlwaysSubmit(e) == submit_transaction
Finalizer(e) == IF e = NoExc THEN submit_transaction ELSE rollback_transaction
IgnoredAnyOperationFailed(e) == IsInstance(e, "OperationFailed")
Ignored(e) == IsInstance(e, "ServerError")
FinalizerCall(S, i, e, env) ==
    Invoke(S, i, System, Session, Finalizer(e), <<>>, env, "exit")
Exited(r, e) ==
    IF e = NoExc THEN Res(r.S, NoneV, r.exc)
    ELSE IF r.exc # NoExc /\ ~Ignored(r.exc) THEN Res(r.S, NoneV, r.exc)
    ELSE Res(r.S, NoneV, NoExc)
TransactionExit(S, i, e, env) == Exited(FinalizerCall(S, i, e, env), e)

\* The with statement leaving its body with exception e (NoExc: none) once
\* __exit__ has ended as x: what the statement raises to its caller.
Truthy(v) == v # NoneV
WithLeaves(e, x) ==
    IF x.exc # NoExc THEN x.exc
    ELSE IF e # NoExc /\ ~Truthy(x.ret) THEN e
    ELSE NoExc


-----------------------------------------------------------------------------
(* The facade machine: a caller holding a BIGIP instance reads attributes, *)
(* calls the methods it got and derives session instances.                 *)

RootParams ==
    {[hostname |-> "bigip-hostname", username |-> "admin", password |-> "admin",
      debug |-> FALSE, cachedir |-> NoneV, verify |-> FALSE,
      timeout |-> DefaultTimeout, port |-> DefaultPort],
     [hostname |-> "localhost", username |-> "admin", password |-> "secret",
      debug |-> TRUE, cachedir |-> Txt("~/.wsdl"), verify |-> TRUE,
      timeout |-> 30, port |-> 10443]}

EmptyHeap ==
    [insts |-> <<>>, objs |-> <<>>, fetched |-> <<>>, gets |-> <<>>, log |-> <<>>]
NoTxn ==
    [pc |-> "idle", inst |-> 0, entered |-> FALSE, bodyExc |-> NoExc,
     fin |-> NoExc, out |-> NoExc, trace |-> <<>>]
MarshalIdle == mIn = NoneV /\ mOut = NoOut /\ mPc = "idle"

\* What an operation leaves for its caller to see.
Seen(op, holder, attr, cached, r) ==
    [op |-> op, holder |-> holder, attr |-> attr, cached |-> cached,
     ret |-> r.ret, exc |-> r.exc, gets |-> r.S.gets, calls |-> r.S.log]

Init ==
    /\ py2 \in BOOLEAN
    /\ v11 \in BOOLEAN
    /\ \E p \in RootParams :
       \E r \in {Construct(EmptyHeap, "BIGIP", p, NoneV, Answers)} :
          /\ r.exc = NoExc
          /\ insts = r.S.insts /\ objs = r.S.objs /\ fetched = r.S.fetched
          /\ last = Seen("init", NoneV, <<>>, NoneV, r)
    /\ txn = NoTxn
    /\ MarshalIdle

Within(S) == Len(S.insts) + Cardinality(DOMAIN S.objs) <= MaxSize
Commit(S) == insts' = S.insts /\ objs' = S.objs /\ fetched' = S.fetched
Src == IF txn.pc = "body" THEN "body" ELSE "user"
GcOutcomes == {Answers} \cup GetClientFailures
\* How the remote call of a facade operation can end: an answer, a fault of
\* the appliance, a refused connection, a method the service lacks.
FacadeOutcomes ==
    {rc \in RemoteOutcomes :
        \/ rc.exc = NoExc /\ rc.val = IntV(MaxInt)
        \/ rc.exc.cls \in {"WebFault", "URLError", "_MethodNotFound"}}
\* How a remote call the caller makes itself can end.
CallOutcomes == {rc \in FacadeOutcomes : rc.exc.cls \in {"none", "WebFault"}}
Envs == [gc : GcOutcomes, rc : FacadeOutcomes, ws : {Answers}]
\* The outcomes of what with_session_id(sid) on instance i gets to ask: the
\* appliance for a session id when none is given, get_wsdls under debug.
EnvsW(i, sid) ==
    [gc : IF sid = NoneV THEN GcOutcomes ELSE {Answers},
     rc : IF sid = NoneV THEN CallOutcomes
          ELSE {rc \in CallOutcomes : rc.exc = NoExc},
     ws : IF insts[i].debug
          THEN {Answers, Exc("URLError", <<"<urlopen error timed out>">>, "none")}
          ELSE {Answers}]
\* The session ids a caller gives: none, or one of its own.
SessionIds == {NoneV, IntV(MaxInt)}

Holders ==
    {InstRef(i) : i \in 1..Len(insts)}
    \cup {Ref(id) : id \in {x \in DOMAIN objs : x.t \in {"ns", "cw"}}}
AttrsOf(ref) ==
    IF ref.k = "inst"
    THEN {System, <<"LocalLB", "_", "Pool">>}
    ELSE IF ref.id.t = "ns" THEN {Session, Pool}
    ELSE {get_member, start_transaction}

\* What the caches hold for <holder>.<attr> (NoneV: nothing): the entry of
\* the holder's __dict__, an A_B entry being the B entry of the A entry.
RECURSIVE Cached(_, _, _)
Cached(S, ref, attr) ==
    IF ref.k = "obj"
    THEN IF attr \in DOMAIN S.objs[ref.id].d
         THEN Ref(S.objs[ref.id].d[attr]) ELSE NoneV
    ELSE IF attr \in DOMAIN S.insts[ref.i].d THEN Ref(S.insts[ref.i].d[attr])
    ELSE IF HasTok(attr, "_") /\ Cached(S, ref, SplitFirst(attr)) # NoneV
    THEN Cached(S, Cached(S, ref, SplitFirst(attr)), SplitSecond(attr))
    ELSE NoneV

\* The remote calls of an operation made in a Transaction body join the
\* calls of the scope.
InScope(calls) ==
    IF txn.pc = "body" THEN [txn EXCEPT !.trace = @ \o calls] ELSE txn

\* The caller evaluates <holder>.<attr>.
Access ==
    \E ref \in Holders : \E attr \in AttrsOf(ref) :
    \E gc \in IF Cached(Cur, ref, attr) = NoneV THEN GcOutcomes ELSE {Answers} :
       \E r \in {Getattr(Cur, ref, attr, gc)} :
       /\ Within(r.S)
       /\ Commit(r.S)
       /\ last' = Seen("getattr", ref, attr, Cached(Cur, ref, attr), r)
       /\ UNCHANGED <<py2, v11, txn, marshalVars>>

\* The caller calls a wrapped method it holds.
Call ==
    \E m \in {id \in DOMAIN objs : id.t = "meth"} :
    \E args \in {<<>>, <<Txt("abc")>>} : \E rc \in CallOutcomes :
       \E r \in {CallMethod(Cur, Ref(m), args, <<>>, rc, Src)} :
       /\ Within(r.S)
       /\ Len(InScope(r.S.log).trace) <= MaxLog + 1
       /\ Commit(r.S)
       /\ last' = Seen("call", Ref(m), <<>>, NoneV, r)
       /\ txn' = InScope(r.S.log)
       /\ UNCHANGED <<py2, v11, marshalVars>>

\* The caller derives a session-bound instance.
DeriveSession ==
    \E i \in 1..Len(insts) :
    \E sid \in SessionIds : \E env \in EnvsW(i, sid) :
       \E r \in {WithSessionId(Cur, i, sid, env, Src)} :
       /\ Within(r.S)
       /\ Commit(r.S)
       /\ last' = Seen("with_session_id", InstRef(i), <<>>, NoneV, r)
       /\ UNCHANGED <<py2, v11, txn, marshalVars>>

Next ==
    \/ Access
    \/ Call
    \/ DeriveSession

Spec == Init /\ [][Next]_vars

-----------------------------------------------------------------------------
(* The transaction machine: a caller runs one with Transaction(<instance>) *)
(* statement, its body calling methods.                                    *)

\* The statement calls __enter__.
TxnEnter ==
    /\ txn.pc = "idle"
    /\ \E i \in 1..Len(insts) : \E env \in Envs :
       \E r \in {TransactionEnter(Cur, i, env)} :
          /\ Within(r.S)
          /\ Commit(r.S)
          /\ txn' = [pc |-> IF r.exc = NoExc THEN "body" ELSE "done",
                     inst |-> i, entered |-> r.exc = NoExc, bodyExc |-> NoExc,
                     fin |-> NoExc, out |-> r.exc, trace |-> r.S.log]
          /\ last' = Seen("enter", InstRef(i), <<>>, NoneV, r)
    /\ UNCHANGED <<py2, v11, marshalVars>>

\* The exceptions a body can end with: the one its last operation raised,
\* or one of its own.
BodyFailures ==
    {Exc("ValueError", <<"raised in the body">>, "none")}
    \cup (IF last.exc # NoExc /\ last.op = "call" THEN {last.exc} ELSE {})

\* The body ended with e (NoExc: cleanly) and the statement calls __exit__.
Leave(e) ==
    \E env \in Envs : \E x \in {TransactionExit(Cur, txn.inst, e, env)} :
       /\ Commit(x.S)
       /\ txn' = [txn EXCEPT !.pc = "done", !.bodyExc = e,
                             !.fin = FinalizerCall(Cur, txn.inst, e, env).exc,
                             !.out = WithLeaves(e, x),
                             !.trace = @ \o x.S.log]
       /\ last' = [Seen("exit", InstRef(txn.inst), <<>>, NoneV, x)
                     EXCEPT !.exc = WithLeaves(e, x)]
       /\ UNCHANGED <<py2, v11, marshalVars>>

\* The body ends cleanly.
TxnLeaveCleanly ==
    /\ txn.pc = "body"
    /\ Leave(NoExc)

\* The body ends with an exception.
TxnLeaveByFailure ==
    /\ txn.pc = "body"
    /\ \E e \in BodyFailures : Leave(e)

TNext ==
    \/ TxnEnter
    \/ Call
    \/ TxnLeaveCleanly
    \/ TxnLeaveByFailure

SpecTxn == Init /\ [][TNext]_vars

-----------------------------------------------------------------------------
(* The pycontrol machine: a caller reads attributes of an instance by      *)
(* their flattened names (LocalLB_Pool) as well as hop by hop.             *)

\* Names with an underscore a caller reads off an instance: namespaces the
\* appliance serves and one it does not, attributes __init__ stored and a
\* method of the class.
FlatAttrs ==
    {<<"LocalLB", "_", "Pool">>, <<"System", "_", "Session">>,
     <<"LocalLB", "_", "Pool", "_", "v2">>,
     <<"_", "hostname">>, <<"_", "cachedir">>,
     <<"with", "_", "session", "_", "id">>}

\* The caller evaluates <instance>.<X_Y>.
AccessFlat ==
    \E i \in 1..Len(insts) : \E attr \in FlatAttrs :
    \E gc \in IF Cached(Cur, InstRef(i), attr) = NoneV THEN GcOutcomes ELSE {Answers} :
       \E r \in {Getattr(Cur, InstRef(i), attr, gc)} :
       /\ Within(r.S)
       /\ Commit(r.S)
       /\ last' = Seen("getattr_", InstRef(i), attr, Cached(Cur, InstRef(i), attr), r)
       /\ UNCHANGED <<py2, v11, txn, marshalVars>>

FNext ==
    \/ Access
    \/ AccessFlat

SpecFlat == Init /\ [][FNext]_vars

-----------------------------------------------------------------------------
(* Properties of the facade machine (Spec).                                *)

\* The successful get_client calls made so far for a path of an instance.
Fetches(i, path) ==
    IF [inst |-> i, path |-> path] \in BagToSet(fetched)
    THEN CopiesIn([inst |-> i, path |-> path], fetched) ELSE 0

\* An access that returned an object returned the one now stored for it.
ReturnedIsStored ==
    (last.op = "getattr" /\ last.exc = NoExc /\ last.ret.k = "obj")
        => Cached(Cur, last.holder, last.attr) = last.ret
\* An access to what the caches held returned just that, asking get_client
\* for nothing.
HitReturnsStored ==
    (last.op = "getattr" /\ last.cached # NoneV)
        => last.exc = NoExc /\ last.ret = last.cached /\ last.gets = <<>>
\* No path of an instance has been given a client twice.
FetchedAtMostOnce ==
    \A i \in 1..Len(insts) : \A path \in WsdlPaths : Fetches(i, path) <= 1
\* What the caches hold stays: no step replaces or drops an entry.
CacheStable ==
    /\ \A i \in 1..Len(insts) : \A attr \in DOMAIN insts[i].d :
          attr \in DOMAIN insts'[i].d /\ insts'[i].d[attr] = insts[i].d[attr]
    /\ \A id \in DOMAIN objs :
          /\ id \in DOMAIN objs'
          /\ \A attr \in DOMAIN objs[id].d :
                attr \in DOMAIN objs'[id].d /\ objs'[id].d[attr] = objs[id].d[attr]

\* C1: on one instance, an access to A, to A.B or to a method A.B.m returns
\* the object the first access stored (each access returns what the cache
\* then holds, a cached entry is returned as it is and never replaced), and
\* get_client gives a client for a path A.B at most once.
C1_CachedObjectIsReturnedAndFetchedOnce ==
    /\ [](ReturnedIsStored /\ HitReturnsStored /\ FetchedAtMostOnce)
    /\ [][CacheStable]_vars

\* A.B.m read again: the wrapper stored before comes back, the one client
\* of A.B having been fetched once.
C1_Witness ==
    /\ last.op = "getattr" /\ last.cached # NoneV
    /\ last.ret.k = "obj" /\ last.ret.id.t = "meth"
    /\ last.ret = last.cached
    /\ Fetches(last.ret.id.owner, last.ret.id.path) = 1

\* What with_session_id must leave alone on the instance it is called on:
\* everything but the namespaces it caches.
Identity(inst) == [inst EXCEPT !.d = <<>>]
\* The session header of an instance: X-iControl-Session with str() of its
\* session id on a session instance, none on a BIGIP.
HeadersOf(inst) ==
    IF inst.cls = "_BIGIPSession"
    THEN << <<"X-iControl-Session", Str(inst.sid)>> >> ELSE NoHeaders
ClientsCarryHeader ==
    \A id \in DOMAIN objs :
        id.t = "cw" => objs[id].hdr = HeadersOf(insts[id.owner])
CallsCarryHeader ==
    \A j \in 1..Len(last.calls) :
        last.calls[j].hdr = HeadersOf(insts[last.calls[j].inst])
InstancesKeepIdentity ==
    /\ \A i \in 1..Len(insts) : Identity(insts'[i]) = Identity(insts[i])
    /\ \A id \in DOMAIN objs : id.t = "cw" => objs'[id].hdr = objs[id].hdr

\* C10: every client a session instance creates carries the header
\* X-iControl-Session = str(its session id) from its creation on, so every
\* remote call through the instance carries it; no step, with_session_id
\* included, changes the session id or the header of an existing instance or
\* client, and the calls through a BIGIP that is no session carry no header.
C10_SessionHeaderFixed ==
    /\ [](ClientsCarryHeader /\ CallsCarryHeader)
    /\ [][InstancesKeepIdentity]_vars

\* A remote call made through a derived session instance, with its header.
C10_Witness ==
    /\ last.op = "call" /\ Len(last.calls) = 1
    /\ insts[last.calls[1].inst].cls = "_BIGIPSession"
    /\ last.calls[1].hdr = << <<"X-iControl-Session", Txt(DecStr(MaxInt))>> >>
    /\ insts[1].cls = "BIGIP" /\ insts[1].sid = NoneV

\* The construction parameters of an instance.
Parameters(inst) ==
    [hostname |-> inst.hostname, port |-> inst.port, username |-> inst.username,
     password |-> inst.password, verify |-> inst.verify,
     timeout |-> inst.timeout, cachedir |-> inst.cachedir, debug |-> inst.debug]

\* C16 as claimed: the instance with_session_id returns has the hostname,
\* port, username, password, verify flag, timeout, cache directory and
\* debug flag of the instance it was called on.
C16_SessionKeepsParameters ==
    (last.op = "with_session_id" /\ last.exc = NoExc)
        => Parameters(insts[last.ret.i]) = Parameters(insts[last.holder.i])

-----------------------------------------------------------------------------
(* Properties of the pycontrol machine (SpecFlat).                         *)

\* The names among those read that an instance has as literal attributes:
\* __init__ stored _hostname and _cachedir, the class defines
\* with_session_id.
LiteralNames ==
    {<<"_", "hostname">>, <<"_", "cachedir">>,
     <<"with", "_", "session", "_", "id">>}
\* The last operation read the flattened name of something that is no
\* literal attribute of the instance.
FlatRead ==
    /\ last.op = "getattr_"
    /\ last.attr \notin LiteralNames
\* A flattened read that returned: X is cached on the instance, Y on the
\* namespace cached for X, what was returned is that entry, and nothing is
\* cached under the flattened name itself.
FlatIsTwoHops ==
    (FlatRead /\ last.exc = NoExc)
        => LET d == insts[last.holder.i].d
               X == SplitFirst(last.attr)
               Y == SplitSecond(last.attr) IN
           /\ X \in DOMAIN d
           /\ Y \in DOMAIN objs[d[X]].d
           /\ last.ret = Ref(objs[d[X]].d[Y])
           /\ last.attr \notin DOMAIN d
\* A read of a literal attribute returned it, nothing fetched.
LiteralIsReturned ==
    (last.op = "getattr_" /\ last.attr \in LiteralNames)
        => last.ret = Literal(last.attr) /\ last.exc = NoExc /\ last.gets = <<>>
\* A step that read <instance>.X_Y did what reading X and then Y of it does:
\* the same result and the same caches; a step that read a literal
\* attribute changed nothing.
FlatStepIsTwoHops ==
    (last' # last /\ last'.op = "getattr_")
        => IF last'.attr \in LiteralNames
           THEN insts' = insts /\ objs' = objs /\ fetched' = fetched
           ELSE \E gc \in GcOutcomes :
                \E a \in {Getattr(Cur, last'.holder, SplitFirst(last'.attr), gc)} :
                \E b \in {Getattr(a.S, a.ret, SplitSecond(last'.attr), gc)} :
                   /\ a.exc = NoExc
                   /\ last'.ret = b.ret /\ last'.exc = b.exc
                   /\ insts' = b.S.insts /\ objs' = b.S.objs
                   /\ fetched' = b.S.fetched

\* C11: reading X_Y off an instance (an underscore in the name, no double
\* underscore at its start) is reading X and then Y: it returns the object
\* root.X.Y returns and fills the same cache entries; this happens only for
\* a name that is no literal attribute of the instance; a literal attribute
\* is returned as it is and nothing is resolved.
C11_FlatNameIsTwoHops ==
    /\ [](FlatIsTwoHops /\ LiteralIsReturned)
    /\ [][FlatStepIsTwoHops]_vars

\* LocalLB_Pool read after LocalLB.Pool: the client cached by the two hops
\* comes back.
C11_Witness ==
    /\ last.op = "getattr_" /\ last.attr = <<"LocalLB", "_", "Pool">>
    /\ last.exc = NoExc /\ last.ret.k = "obj" /\ last.ret.id.t = "cw"
    /\ last.cached = last.ret

\* The get_client calls of the last operation that failed.
FailedGets == {j \in 1..Len(last.gets) : ~last.gets[j].ok}

\* C12: when get_client fails for a path, a SAXParseException reaches the
\* caller as ParseError whose message holds the dotted path and the text of
\* the parse error; a URLError or TransportError reaches it as
\* ConnectionError whose message is the text of that error.
C12_ClientFailureTranslated ==
    \A j \in FailedGets :
        LET e == last.gets[j].err IN
        /\ IsInstance(e, "SAXParseException")
              => /\ last.exc.cls = "ParseError"
                 /\ Mentions(last.exc.msg, last.gets[j].path)
                 /\ Mentions(last.exc.msg, e.msg)
        /\ (IsInstance(e, "URLError") \/ IsInstance(e, "TransportError"))
              => /\ last.exc.cls = "ConnectionError"
                 /\ last.exc.msg = e.msg

\* LocalLB_Pool_v2 read: the page the appliance gives for LocalLB.Pool_v2
\* does not parse.
C12_Witness ==
    /\ FailedGets # {}
    /\ last.exc.cls = "ParseError"
    /\ \E j \in FailedGets :
          /\ last.gets[j].err.cls = "SAXParseException"
          /\ last.gets[j].path = <<"LocalLB", ".", "Pool", "_", "v2">>

\* The last operation was an attribute read that failed to resolve a
\* client or a method.
FailedRead ==
    /\ last.op \in {"getattr", "getattr_"}
    /\ last.exc.cls \in {"ParseError", "ConnectionError", "MethodNotFound"}
\* After a failed read nothing is cached for the name read.
FailureNotStored ==
    FailedRead => Cached(Cur, last.holder, last.attr) = NoneV
\* A read of a client or method that no cache holds resolves it anew: a
\* namespace asks get_client, a client its service.
UncachedIsResolved ==
    (last.op = "getattr" /\ last.holder.k = "obj" /\ last.cached = NoneV)
        => IF last.holder.id.t = "ns"
           THEN /\ Len(last.gets) = 1
                /\ last.gets[1].path = Path(objs[last.holder.id].name, last.attr)
                /\ last.exc = NoExc <=> last.gets[1].ok
           ELSE last.exc.cls = "MethodNotFound"
                    <=> last.attr \notin Range(WsdlMethods(objs[last.holder.id].path))
\* A step whose read fails leaves every cached binding as it was; a read
\* off a namespace or a client leaves the instances and objects as they
\* were.
FailedStepKeepsBindings ==
    (last' # last /\ last'.op \in {"getattr", "getattr_"}
        /\ last'.exc.cls \in {"ParseError", "ConnectionError", "MethodNotFound"})
        => /\ CacheStable
           /\ fetched' = fetched
           /\ last'.holder.k = "obj" => insts' = insts /\ objs' = objs

\* C15: a failed resolution is not memoized: when building the client for
\* A.B raises ParseError or ConnectionError, or looking up a method raises
\* MethodNotFound, nothing is stored for B (for the method), every binding
\* cached before is unchanged, and the next read of the name resolves it
\* again.
C15_FailureNotMemoized ==
    /\ [](FailureNotStored /\ UncachedIsResolved)
    /\ [][FailedStepKeepsBindings]_vars

\* LocalLB.Pool read off the namespace with the connection refused:
\* ConnectionError, and LocalLB still holds no Pool.
C15_Witness ==
    /\ last.op = "getattr" /\ last.holder.k = "obj" /\ last.holder.id.t = "ns"
    /\ last.attr = Pool
    /\ last.exc.cls = "ConnectionError"
    /\ Pool \notin DOMAIN objs[last.holder.id].d
    /\ Len(last.gets) = 1 /\ ~last.gets[1].ok

-----------------------------------------------------------------------------
(* Properties of the transaction machine (SpecTxn).                        *)

CallsAt(src) == {j \in 1..Len(txn.trace) : txn.trace[j].src = src}
FinalizingCalls ==
    {j \in 1..Len(txn.trace) :
        txn.trace[j].method \in {submit_transaction, rollback_transaction}
        /\ txn.trace[j].src # "body"}

\* C8: in a Transaction scope start_transaction is the first remote call,
\* made on entry; after a successful entry exactly one finalizing call is
\* made, at exit and last in the scope: submit_transaction iff the body
\* ended cleanly, rollback_transaction iff it ended with an exception; when
\* the entry fails no finalizing call is made.
C8_StartFirstOneFinalizerLast ==
    /\ txn.pc = "idle" => txn.trace = <<>>
    /\ txn.entered
         => /\ CallsAt("enter") = {1}
            /\ txn.trace[1].method = start_transaction
            /\ txn.trace[1].path = Path(System, Session)
    /\ txn.pc = "body" => CallsAt("exit") = {} /\ FinalizingCalls = {}
    /\ (txn.pc = "done" /\ txn.entered)
         => /\ CallsAt("exit") = {Len(txn.trace)}
            /\ FinalizingCalls = {Len(txn.trace)}
            /\ (txn.trace[Len(txn.trace)].method = submit_transaction)
                  <=> (txn.bodyExc = NoExc)
            /\ (txn.trace[Len(txn.trace)].method = rollback_transaction)
                  <=> (txn.bodyExc # NoExc)
    /\ (txn.pc = "done" /\ ~txn.entered)
         => /\ CallsAt("exit") = {} /\ FinalizingCalls = {}
            /\ \A j \in 1..Len(txn.trace) : txn.trace[j].method = start_transaction

\* A scope whose body made a call and then failed: start, the call, rollback.
C8_Witness ==
    /\ txn.pc = "done" /\ txn.entered /\ txn.bodyExc # NoExc
    /\ Len(txn.trace) = 3
    /\ txn.trace[1].method = start_transaction
    /\ txn.trace[2].src = "body"
    /\ txn.trace[3].method = rollback_transaction

\* C9: when the body of a Transaction scope ends with an exception E, the
\* with statement raises E itself if the rollback succeeded or raised
\* ServerError, and raises what the rollback raised otherwise.
C9_RollbackServerErrorSuppressed ==
    (txn.pc = "done" /\ txn.entered /\ txn.bodyExc # NoExc)
        => /\ (txn.fin = NoExc \/ IsInstance(txn.fin, "ServerError"))
                 => txn.out = txn.bodyExc
           /\ (txn.fin # NoExc /\ ~IsInstance(txn.fin, "ServerError"))
                 => txn.out = txn.fin
           /\ last.op = "exit" => last.exc = txn.out

\* An ArgumentError in the body, a ServerError from the rollback: the
\* ArgumentError reaches the caller.
C9_Witness ==
    /\ txn.pc = "done" /\ txn.entered
    /\ txn.bodyExc.cls = "ArgumentError"
    /\ txn.fin.cls = "ServerError"
    /\ txn.out = txn.bodyExc

=============================================================================
